---- MODULE Spec2Model ----
(***************************************************************************)
(* multipart-async, server side: the field lifecycle controller            *)
(* (Multipart / MultipartStream / FieldData) over the boundary scanner and *)
(* the header reader.                                                      *)
(*                                                                         *)
(* Bytes are modelled one token per byte, except that the fixed literal    *)
(* `Content-Disposition: form-data; name="` is the single token "CD" and   *)
(* the closing quote is "Q".  CR and LF are the tokens "CR" and "LF".      *)
(*                                                                         *)
(* server/boundary.rs (BoundaryFinder) and server/field/headers.rs         *)
(* (ReadHeaders) are not part of the sources at hand; body_chunk,          *)
(* consume_boundary and read_headers follow sections 4.1 and 4.2 of the    *)
(* specification.                                                          *)
(*                                                                         *)
(* Specifications:                                                         *)
(*   Spec            MultipartStream and FieldData over the inbound stream *)
(*   TextSpec        ReadTextField (server/field/text.rs) over a stream of *)
(*                   chunks; bytes are their values 0..255                 *)
(*   TextFieldSpec   ReadTextField over a FieldData of MultipartStream     *)
(*   FoldSpec        Multipart::fold_fields of server/fold.rs              *)
(*   FoldFieldsSpec  FoldFields of server/field/fold.rs                    *)
(*   DropSpec        Spec with the destructor of FieldData in two steps    *)
(*   TextFieldErrSpec  TextFieldSpec with errors of the transport          *)
(*   MockSpec        MockStream (mock.rs)                                  *)
(*   SinkSpec        FileSink (server/save.rs)                             *)
(***************************************************************************)
EXTENDS Integers, Sequences, FiniteSets, TLC

\* ------------------------------------------------------------------ bounds
\* chunks that have arrived on the inbound stream and were not polled yet
MaxPending == 1
\* transport errors the inbound stream reports during one request
MaxErrs == 1

\* ------------------------------------------------------------- wire format
CR == "CR"
LF == "LF"
CRLF == <<CR, LF>>
DASHES == <<"-", "-">>

\* Multipart::with_body: the boundary is stored with "--" prepended
with_body(b) == DASHES \o b

BoundaryValue == <<"B">>
Boundary == with_body(BoundaryValue)

\* one part: delimiter line, header block, blank line, body
Part(name, data) == Boundary \o CRLF \o <<"CD">> \o name \o <<"Q">> \o CRLF \o CRLF \o data \o CRLF
Terminal == Boundary \o DASHES \o CRLF

\* the fields of the two-part request: a then b
FieldsAB == << [name |-> <<"a">>, data |-> <<"h", "i">>], [name |-> <<"b">>, data |-> <<"x">>] >>

RECURSIVE Parts(_)
Parts(fs) == IF fs = <<>> THEN <<>> ELSE Part(Head(fs).name, Head(fs).data) \o Parts(Tail(fs))

BodyAB == Parts(FieldsAB) \o Terminal

\* one field whose data looks like the start of a delimiter
FieldsDashes == << [name |-> <<"c">>, data |-> <<CR, LF, "-", "-">>] >>

BodyDashes == Parts(FieldsDashes) \o Terminal
\* header block without the mandatory Content-Disposition name
BodyBadHeader == Boundary \o CRLF \o <<"X", "a", "Q">> \o CRLF \o CRLF \o <<"z">> \o CRLF \o Terminal
\* the stream ends without the terminal marker
BodyTruncated == Boundary \o CRLF \o <<"CD", "a", "Q">> \o CRLF \o CRLF \o <<"h", "i">>

\* a delimiter line directly followed by the next delimiter: a part without headers
BodyEmptyPart == Boundary \o CRLF \o CRLF \o Parts(<<FieldsAB[2]>>) \o Terminal

\* the field a with the data hello
FieldsHello == << [name |-> <<"a">>, data |-> <<"h", "e", "l", "l", "o">>] >>

BodyHello == Parts(FieldsHello) \o Terminal

\* a field without data, then a field with data
FieldsEmpty == << [name |-> <<"e">>, data |-> << >>], [name |-> <<"b">>, data |-> <<"x">>] >>

BodyEmptyField == Parts(FieldsEmpty) \o Terminal

Bodies == {BodyAB, BodyDashes, BodyBadHeader, BodyTruncated, BodyEmptyPart}
ValidBodies == {BodyAB, BodyDashes}

\* the fields a valid body encodes, their names and their data, in body order
FieldsOf(b) ==
  IF b = BodyAB THEN FieldsAB
  ELSE IF b = BodyDashes THEN FieldsDashes
  ELSE IF b = BodyEmptyField THEN FieldsEmpty
  ELSE IF b = BodyHello THEN FieldsHello
  ELSE << >>
FieldNames(b) == [i \in 1..Len(FieldsOf(b)) |-> FieldsOf(b)[i].name]
FieldBodies(b) == [i \in 1..Len(FieldsOf(b)) |-> FieldsOf(b)[i].data]

\* ------------------------------------------------------------ byte helpers
Min(a, b) == IF a < b THEN a ELSE b

IsPrefix(s, t) == Len(s) <= Len(t) /\ SubSeq(t, 1, Len(s)) = s

MatchAt(pat, s, i) == i + Len(pat) - 1 <= Len(s) /\ SubSeq(s, i, i + Len(pat) - 1) = pat

\* index of the first occurrence of pat in s, 0 when there is none
Find(pat, s) ==
  LET hits == {i \in 1..Len(s) : MatchAt(pat, s, i)}
  IN IF hits = {} THEN 0 ELSE CHOOSE i \in hits : \A j \in hits : i <= j

\* length of the longest proper prefix of pat that is a suffix of s
PartialTail(pat, s) ==
  LET ks == {k \in 0..Min(Len(pat) - 1, Len(s)) :
               SubSeq(s, Len(s) - k + 1, Len(s)) = SubSeq(pat, 1, k)}
  IN CHOOSE k \in ks : \A j \in ks : j <= k

\* ---------------------------------------------------------- poll results
Res(t, v) == [t |-> t, v |-> v]
NotReady == Res("NotReady", <<>>)
ReadyNone == Res("None", <<>>)
ReadySome(v) == Res("Some", v)
Error(kind) == Res("Err", <<kind>>)

\* --------------------------------------------------------- inbound stream
Chunk(bytes) == [t |-> "chunk", b |-> bytes]
ErrItem == [t |-> "err", b |-> <<>>]

\* S::poll of the inbound chunk stream: q are the items that have arrived,
\* done says that the transport has delivered the whole body
StreamPoll(q, done) ==
  IF q # <<>>
  THEN [q |-> Tail(q),
        res |-> IF Head(q).t = "chunk" THEN ReadySome(Head(q).b) ELSE Error("transport")]
  ELSE [q |-> q, res |-> IF done THEN ReadyNone ELSE NotReady]

\* --------------------------------------------------------- BoundaryFinder
\* buf: bytes received and neither emitted nor consumed (lookback and remainder)
\* state: Watching | Boundary (delimiter at the head of buf) | End
\* first: no boundary consumed yet (the first delimiter has no leading CRLF)
NewFinder == [buf |-> <<>>, state |-> "Watching", first |-> TRUE]

Delim(bf) == IF bf.first THEN Boundary ELSE CRLF \o Boundary

BF(bf, q, res) == [bf |-> bf, q |-> q, res |-> res]

RECURSIVE body_chunk(_, _, _)
body_chunk(bf, q, done) ==
  IF bf.state \in {"Boundary", "End"} THEN BF(bf, q, ReadyNone)
  ELSE
    CHOOSE r \in
      { IF i = 1 THEN BF([bf EXCEPT !.state = "Boundary"], q, ReadyNone)
        ELSE IF i > 1
          THEN BF([bf EXCEPT !.buf = SubSeq(bf.buf, i, n)], q, ReadySome(SubSeq(bf.buf, 1, i - 1)))
        ELSE IF n - k > 0
          THEN BF([bf EXCEPT !.buf = SubSeq(bf.buf, n - k + 1, n)], q,
                  ReadySome(SubSeq(bf.buf, 1, n - k)))
        ELSE
          CASE p.res.t = "Some" -> body_chunk([bf EXCEPT !.buf = @ \o p.res.v], p.q, done)
            [] p.res.t = "None" -> BF(bf, p.q, Error("boundary"))
            [] OTHER -> BF(bf, p.q, p.res)
        : i \in {Find(Delim(bf), bf.buf)},
          k \in {PartialTail(Delim(bf), bf.buf)},
          n \in {Len(bf.buf)},
          p \in {StreamPoll(q, done)} } : TRUE

RECURSIVE consume_boundary(_, _, _)
consume_boundary(bf, q, done) ==
  CHOOSE r \in
    { CASE c.res.t = "Some" -> consume_boundary(c.bf, c.q, done)
        [] c.res.t \in {"NotReady", "Err"} -> c
        [] c.bf.state = "End" -> BF(c.bf, c.q, Res("False", <<>>))
        [] OTHER ->
           CHOOSE r2 \in
             { IF n < dl + 2
               THEN CASE p.res.t = "Some" ->
                           consume_boundary([c.bf EXCEPT !.buf = @ \o p.res.v], p.q, done)
                      [] p.res.t = "None" -> BF(c.bf, p.q, Error("boundary"))
                      [] OTHER -> BF(c.bf, p.q, p.res)
               ELSE IF SubSeq(c.bf.buf, dl + 1, dl + 2) = DASHES
                 THEN BF([buf |-> SubSeq(c.bf.buf, dl + 3, n), state |-> "End", first |-> FALSE],
                         c.q, Res("False", <<>>))
               ELSE IF SubSeq(c.bf.buf, dl + 1, dl + 2) = CRLF
                 THEN BF([buf |-> SubSeq(c.bf.buf, dl + 3, n), state |-> "Watching",
                          first |-> FALSE], c.q, Res("True", <<>>))
               ELSE BF(c.bf, c.q, Error("boundary"))
               : dl \in {Len(Delim(c.bf))},
                 n \in {Len(c.bf.buf)},
                 p \in {StreamPoll(c.q, done)} } : TRUE
      : c \in {body_chunk(bf, q, done)} } : TRUE

\* ------------------------------------------------------------ ReadHeaders
\* acc: the header bytes accumulated so far; bad: the reader was invalidated
NewReadHeaders == [acc |-> <<>>, bad |-> FALSE]

HeaderEnd == CRLF \o CRLF

\* the name of the field a header block declares, or an error
ParseHeaders(block) ==
  LET c == Find(<<"CD">>, block)
      qs == {j \in 1..Len(block) : j > c /\ block[j] = "Q"}
  IN IF c = 0 \/ qs = {} THEN Error("header")
     ELSE ReadySome(SubSeq(block, c + 1, (CHOOSE j \in qs : \A l \in qs : j <= l) - 1))

RH(rh, bf, q, res) == [rh |-> rh, bf |-> bf, q |-> q, res |-> res]

RECURSIVE read_headers(_, _, _, _)
read_headers(rh, bf, q, done) ==
  IF rh.bad THEN RH(rh, bf, q, Error("header"))
  ELSE
    CHOOSE r \in
      { CASE c.res.t = "Some" ->
               CHOOSE r2 \in
                 { IF e = 0 THEN read_headers([rh EXCEPT !.acc = acc], c.bf, c.q, done)
                   ELSE CHOOSE r3 \in
                          { RH([acc |-> <<>>, bad |-> parsed.t = "Err"],
                               [c.bf EXCEPT !.buf = SubSeq(acc, e + 4, Len(acc)) \o @],
                               c.q, parsed)
                            : parsed \in {ParseHeaders(SubSeq(acc, 1, e + 3))} } : TRUE
                   : acc \in {rh.acc \o c.res.v},
                     e \in {Find(HeaderEnd, rh.acc \o c.res.v)} } : TRUE
          [] c.res.t = "None" ->
               IF rh.acc = <<>> THEN RH(rh, c.bf, c.q, ReadyNone)
               ELSE RH([rh EXCEPT !.bad = TRUE], c.bf, c.q, Error("header"))
          [] OTHER -> RH(rh, c.bf, c.q, c.res)
        : c \in {body_chunk(bf, q, done)} } : TRUE

\* -------------------------------------------------------------- Multipart
\* struct Multipart { stream, read_hdr, consumed }
NewMultipart == [stream |-> NewFinder, read_hdr |-> NewReadHeaders, consumed |-> FALSE]

\* cons: the number of boundaries this call consumed (0 or 1)
\* hdrs: the number of results read_headers returned to this call (0 or 1)
MP(m, q, res, cons, hdrs) == [m |-> m, q |-> q, res |-> res, cons |-> cons, hdrs |-> hdrs]

\* mutant: the boundary is consumed on every call
need_consume_always(consumed) == TRUE

\* `self.consumed || ...`: the boundary is consumed only if that was not done yet
need_consume(consumed) == ~consumed

\* mutant: the flag is not cleared
consumed_stays_set == TRUE

\* `self.consumed = false` once read_headers has returned a result
consumed_after_headers == FALSE

\* mutant: the flag is kept in a local and lost on an early return
consumed_lost_on_pending == FALSE

\* `self.consumed = self.consumed || ...` is assigned before read_headers runs, so the
\* flag is set when read_headers returns early
consumed_while_pending == TRUE

\* mutant: the end of the fields is reported as not ready
end_as_not_ready == NotReady

\* `if !self.consumed { return ready(None); }`
end_of_fields == ReadyNone

\* Multipart::poll_field_head
poll_field_head(m, q, done) ==
  CHOOSE r \in
    { IF cb.res.t \in {"NotReady", "Err"}
        THEN MP([m EXCEPT !.stream = cb.bf], cb.q, cb.res, 0, 0)
      ELSE IF cb.res.t = "False"
        THEN MP([m EXCEPT !.stream = cb.bf, !.consumed = FALSE], cb.q, end_of_fields, 0, 0)
      ELSE
        CHOOSE r2 \in
          { IF h.res.t \in {"NotReady", "Err"}
              THEN MP([stream |-> h.bf, read_hdr |-> h.rh, consumed |-> consumed_while_pending],
                      h.q, h.res, IF need_consume(m.consumed) THEN 1 ELSE 0, 0)
            ELSE MP([stream |-> h.bf, read_hdr |-> h.rh, consumed |-> consumed_after_headers],
                    h.q, h.res, IF need_consume(m.consumed) THEN 1 ELSE 0, 1)
            : h \in {read_headers(m.read_hdr, cb.bf, cb.q, done)} } : TRUE
      : cb \in {IF need_consume(m.consumed) THEN consume_boundary(m.stream, q, done)
                ELSE BF(m.stream, q, Res("True", <<>>))} } : TRUE

\* mutant: an error of the inbound stream is swallowed and the poll reports NotReady
poll_field_body_swallow(m, q, done) ==
  CHOOSE r \in
    { MP([m EXCEPT !.stream = c.bf], c.q, IF c.res.t = "Err" THEN NotReady ELSE c.res, 0, 0)
      : c \in {body_chunk(m.stream, q, done)} } : TRUE

\* Multipart::poll_field_body
poll_field_body(m, q, done) ==
  CHOOSE r \in
    { MP([m EXCEPT !.stream = c.bf], c.q, c.res, 0, 0)
      : c \in {body_chunk(m.stream, q, done)} } : TRUE

\* ------------------------------------------- the request parsed in one chunk
\* a consumer that reads every field to its end and then drops it
RECURSIVE DrainField(_, _, _)
DrainField(m, q, acc) ==
  CHOOSE r \in
    { IF c.res.t = "Some" THEN DrainField(c.m, c.q, acc \o c.res.v)
      ELSE [m |-> c.m, q |-> c.q, data |-> acc, res |-> c.res]
      : c \in {poll_field_body(m, q, TRUE)} } : TRUE

RECURSIVE RunFields(_, _, _, _)
RunFields(m, q, names, datas) ==
  CHOOSE r \in
    { IF h.res.t = "Some"
        THEN CHOOSE r2 \in
               { IF f.res.t = "None"
                   THEN RunFields(f.m, f.q, Append(names, h.res.v), Append(datas, f.data))
                 ELSE [names |-> Append(names, h.res.v), datas |-> Append(datas, f.data),
                       end |-> f.res.t]
                 : f \in {DrainField(h.m, h.q, <<>>)} } : TRUE
      ELSE [names |-> names, datas |-> datas, end |-> h.res.t]
      : h \in {poll_field_head(m, q, TRUE)} } : TRUE

\* the whole body fed as one single chunk
RunSingle(b) == RunFields(NewMultipart, <<Chunk(b)>>, <<>>, <<>>)

\* ------------------------------------------------------------------ state
VARIABLES
  body,      \* the request body on the wire
  sent,      \* how many of its bytes have arrived
  errs,      \* transport errors reported so far
  pending,   \* items the inbound stream holds, not polled yet
  multi,     \* Inner.multi: the Multipart
  waiting,   \* Inner.waiting: a task is recorded (Some) or not (None)
  strong,    \* strong count of the Rc<Inner>
  field,     \* the FieldData handed out: none | alive | leaked
  exhausted, \* FieldData::poll has returned None for the field in flight
  notified,  \* the task was notified and has not polled since
  fault,     \* an assertion failed
  lastOp,    \* the operation of the program that ran last
  lastPoll,  \* what MultipartStream::poll returned last, and why
  pre,       \* what held when MultipartStream::poll was last called
  yielded,   \* names of the fields MultipartStream has yielded, in order
  datas,     \* per yielded field, the body bytes its FieldData has produced
  nBoundary, \* boundaries poll_field_head has consumed
  nHeaders,  \* results of read_headers poll_field_head has returned
  ended,     \* MultipartStream::poll has returned end-of-stream
  errored,   \* MultipartStream::poll has returned an error
  abandoned, \* a FieldData was dropped before its body was exhausted
  single,    \* the fields and bodies of this request parsed as one chunk
  txt,       \* a ReadTextField, its source stream and what its poll returned last
  fold,      \* a fold_fields stream, its closures' futures and what it has yielded
  mock,      \* a MockStream and what its poll_next has returned
  sink       \* a FileSink, its file and what its calls have returned

vars == <<body, sent, errs, pending, multi, waiting, strong, field, exhausted, notified,
          fault, lastOp, lastPoll, pre, yielded, datas, nBoundary, nHeaders,
          ended, errored, abandoned, single, txt, fold, mock, sink>>

\* the variables of the field lifecycle controller
parserVars == <<body, sent, errs, pending, multi, waiting, strong, field, exhausted, notified,
                fault, lastOp, lastPoll, pre, yielded, datas, nBoundary, nHeaders,
                ended, errored, abandoned, single>>

Done == sent = Len(body)

PollRes(t, v, why) == [t |-> t, v |-> v, why |-> why]

\* the state a call of MultipartStream::poll started from:
\*   inFlight: a FieldData existed (alive or leaked)
\*   woken: the task had been notified and had not polled since
\*   consumed: Multipart.consumed
\*   nBoundary: the boundaries consumed before the call
\*   cancelled: the previous FieldData was dropped before its body was exhausted
\*   ended, errored: an earlier call had returned end-of-stream, an error
Snapshot(f, w, c, n, x, e, r) ==
  [inFlight |-> f, woken |-> w, consumed |-> c, nBoundary |-> n, cancelled |-> x,
   ended |-> e, errored |-> r]

\* Multipart::with_body, Multipart::into_stream, Inner::new, for a body out of bodies
NewRequest(bodies) ==
  /\ body \in bodies
  /\ sent = 0
  /\ errs = 0
  /\ pending = <<>>
  /\ multi = NewMultipart
  /\ waiting = FALSE
  /\ strong = 1
  /\ field = "none"
  /\ exhausted = FALSE
  /\ notified = FALSE
  /\ fault = FALSE
  /\ lastOp = "new"
  /\ lastPoll = PollRes("none", <<>>, "")
  /\ pre = Snapshot(FALSE, FALSE, FALSE, 0, FALSE, FALSE, FALSE)
  /\ yielded = <<>>
  /\ datas = <<>>
  /\ nBoundary = 0
  /\ nHeaders = 0
  /\ ended = FALSE
  /\ errored = FALSE
  /\ abandoned = FALSE
  /\ single = RunSingle(body)

\* no ReadTextField, no fold_fields stream, no MockStream, no FileSink
Unused == [used |-> FALSE]

Init ==
  /\ NewRequest(Bodies)
  /\ txt = Unused
  /\ fold = Unused
  /\ mock = Unused
  /\ sink = Unused

\* ------------------------------------------------------------ environment
\* the transport delivers the next k bytes of the body as one chunk
Arrive ==
  /\ ~fault
  /\ Len(pending) < MaxPending
  /\ \E k \in 1..(Len(body) - sent) :
       /\ pending' = Append(pending, Chunk(SubSeq(body, sent + 1, sent + k)))
       /\ sent' = sent + k
  /\ UNCHANGED <<lastOp, body, errs, multi, waiting, strong, field, exhausted, notified, fault,
                 lastPoll, pre, yielded, datas, nBoundary, nHeaders, ended, errored,
                 abandoned, single>>
  /\ UNCHANGED <<txt, fold, mock, sink>>

\* the transport reports an error; the inbound stream goes on afterwards
TransportError ==
  /\ ~fault
  /\ errs < MaxErrs
  /\ Len(pending) < MaxPending
  /\ pending' = Append(pending, ErrItem)
  /\ errs' = errs + 1
  /\ UNCHANGED <<lastOp, body, sent, multi, waiting, strong, field, exhausted, notified, fault,
                 lastPoll, pre, yielded, datas, nBoundary, nHeaders, ended, errored,
                 abandoned, single>>
  /\ UNCHANGED <<txt, fold, mock, sink>>

\* --------------------------------------------------------- MultipartStream
\* mutant: the check of stream_mut (at most two owners) used in its place
get_mut_le2(count) == count <= 2

\* mutant: the shared cell is read through its pointer, whoever owns it
get_mut_any(count) == TRUE

\* Rc::get_mut(&mut self.inner): Some only for the sole owner
get_mut(count) == count = 1

\* mutant: the refused poll returns without recording the task
save_task_skipped(w) == w

\* Inner::save_task: self.waiting.set(Some(task::current()))
save_task(w) == TRUE

\* mutant: the task is taken and not notified
notify_task_take_only(w, n) == [waiting |-> FALSE, notified |-> n]

\* Inner::notify_task: waiting.take().map(|t| t.notify())
notify_task(w, n) == [waiting |-> FALSE, notified |-> n \/ w]

\* MultipartStream::poll
Poll ==
  /\ ~fault
  /\ lastOp' = "Poll"
  /\ pre' = Snapshot(field # "none", notified, multi.consumed, nBoundary,
                      field = "none" /\ yielded # <<>> /\ ~exhausted, ended, errored)
  /\ notified' = FALSE
  /\ IF get_mut(strong)
     THEN \E h \in {poll_field_head(multi, pending, Done)} :
             /\ multi' = h.m
             /\ pending' = h.q
             /\ nBoundary' = nBoundary + h.cons
             /\ nHeaders' = nHeaders + h.hdrs
             /\ UNCHANGED waiting
             /\ CASE h.res.t = "Some" ->
                       \* field::new_field(headers, self.inner.clone())
                       /\ strong' = strong + 1
                       /\ field' = "alive"
                       /\ exhausted' = FALSE
                       /\ yielded' = Append(yielded, h.res.v)
                       /\ datas' = Append(datas, <<>>)
                       /\ lastPoll' = PollRes("Field", h.res.v, "headers")
                       /\ UNCHANGED <<ended, errored>>
                  [] h.res.t = "None" ->
                       /\ lastPoll' = PollRes("None", <<>>,
                                              IF h.m.stream.state = "End" THEN "end" ELSE "headers")
                       /\ ended' = TRUE
                       /\ UNCHANGED <<strong, field, exhausted, yielded, datas,
                                      errored>>
                  [] h.res.t = "Err" ->
                       /\ lastPoll' = PollRes("Err", h.res.v, "stream")
                       /\ errored' = TRUE
                       /\ UNCHANGED <<strong, field, exhausted, yielded, datas,
                                      ended>>
                  [] OTHER ->
                       /\ lastPoll' = PollRes("NotReady", <<>>, "stream")
                       /\ UNCHANGED <<strong, field, exhausted, yielded, datas,
                                      ended, errored>>
     ELSE \* a child Field still exists
          /\ waiting' = save_task(waiting)
          /\ lastPoll' = PollRes("NotReady", <<>>, "in flight")
          /\ UNCHANGED <<multi, pending, strong, field, exhausted, yielded, datas,
                         nBoundary, nHeaders, ended, errored>>
  /\ UNCHANGED <<body, sent, errs, fault, abandoned, single>>
  /\ UNCHANGED <<txt, fold, mock, sink>>

\* --------------------------------------------------------------- FieldData
\* FieldData::stream_mut: debug_assert!(Rc::strong_count(&self.internal) <= 2)
stream_mut_ok(count) == count <= 2

\* <FieldData as Stream>::poll
FieldPoll ==
  /\ ~fault
  /\ field = "alive"
  /\ lastOp' = "FieldPoll"
  /\ IF stream_mut_ok(strong)
     THEN \E c \in {poll_field_body(multi, pending, Done)} :
             /\ multi' = c.m
             /\ pending' = c.q
             /\ datas' = IF c.res.t = "Some"
                         THEN [datas EXCEPT ![Len(datas)] = @ \o c.res.v]
                         ELSE datas
             /\ exhausted' = (exhausted \/ c.res.t = "None")
             /\ UNCHANGED fault
     ELSE /\ fault' = TRUE
          /\ UNCHANGED <<multi, pending, datas, exhausted>>
  /\ UNCHANGED <<body, sent, errs, waiting, strong, field, notified, lastPoll, pre,
                 yielded, nBoundary, nHeaders, ended, errored, abandoned, single>>
  /\ UNCHANGED <<txt, fold, mock, sink>>

\* <FieldData as Drop>::drop, then the drop of its Rc<Inner>
Drop ==
  /\ ~fault
  /\ field = "alive"
  /\ lastOp' = "Drop"
  /\ LET n == notify_task(waiting, notified)
     IN /\ waiting' = n.waiting
        /\ notified' = n.notified
  /\ strong' = strong - 1
  /\ field' = "none"
  /\ abandoned' = (abandoned \/ ~exhausted)
  /\ UNCHANGED <<body, sent, errs, pending, multi, exhausted, fault, lastPoll, pre,
                 yielded, datas, nBoundary, nHeaders, ended, errored, single>>
  /\ UNCHANGED <<txt, fold, mock, sink>>

\* mem::forget of the FieldData: its destructor never runs
Leak ==
  /\ ~fault
  /\ field = "alive"
  /\ lastOp' = "Leak"
  /\ field' = "leaked"
  /\ UNCHANGED <<body, sent, errs, pending, multi, waiting, strong, exhausted, notified,
                 fault, lastPoll, pre, yielded, datas, nBoundary, nHeaders, ended,
                 errored, abandoned, single>>
  /\ UNCHANGED <<txt, fold, mock, sink>>

Next == Arrive \/ TransportError \/ Poll \/ FieldPoll \/ Drop \/ Leak

Spec == Init /\ [][Next]_vars

\* ------------------------------------------------------------------ UTF-8
\* mutant: every lead byte is taken for the lead byte of a 2-byte sequence
utf8_char_width_two(b) ==
  IF b < 128 THEN 1
  ELSE IF b < 194 THEN 0
  ELSE IF b < 245 THEN 2
  ELSE 0

\* text.rs UTF8_CHAR_WIDTH / utf8_char_width
utf8_char_width(b) ==
  IF b < 128 THEN 1
  ELSE IF b < 194 THEN 0
  ELSE IF b < 224 THEN 2
  ELSE IF b < 240 THEN 3
  ELSE IF b < 245 THEN 4
  ELSE 0

IsCont(b) == b >= 128 /\ b <= 191

\* the second bytes str::from_utf8 accepts after the lead byte a
SecondOk(a, b) ==
  CASE a = 224 -> b >= 160 /\ b <= 191
    [] a = 237 -> b >= 128 /\ b <= 159
    [] a = 240 -> b >= 144 /\ b <= 191
    [] a = 244 -> b >= 128 /\ b <= 143
    [] OTHER -> IsCont(b)

\* a complete, valid UTF-8 sequence starts at index i of s
SeqAt(s, i) ==
  /\ utf8_char_width(s[i]) > 0
  /\ i + utf8_char_width(s[i]) - 1 <= Len(s)
  /\ utf8_char_width(s[i]) >= 2 => SecondOk(s[i], s[i + 1])
  /\ \A j \in (i + 2)..(i + utf8_char_width(s[i]) - 1) : IsCont(s[j])

\* Utf8Error::valid_up_to of str::from_utf8(s), scanning from index i;
\* Len(s) when s is valid UTF-8
RECURSIVE valid_up_to(_, _)
valid_up_to(s, i) ==
  IF i > Len(s) THEN Len(s)
  ELSE IF SeqAt(s, i) THEN valid_up_to(s, i + utf8_char_width(s[i]))
  ELSE i - 1

\* str::from_utf8(s).is_ok()
from_utf8(s) == valid_up_to(s, 1) = Len(s)

\* ---------------------------------------------------------- ReadTextField
\* struct ReadTextField { stream, accum, prev_chunk, limit, headers }
\*   stream: TRUE for Some(data), FALSE for None
\*   prev_chunk: the bytes of Some(chunk), << >> for None
DEFAULT_LIMIT == 65536

\* read_text, then set_limit
read_text(limit) == [stream |-> TRUE, accum |-> <<>>, prev_chunk |-> <<>>, limit |-> limit]

\* the outcome of one step of the decoder: what the struct holds afterwards, and
\* t: Ok | Err | Panic with the error or the panic in v
TR(rt, t, v) == [rt |-> rt, t |-> t, v |-> v]

\* the build: overflow checks are on in a debug build and off in a release build
Builds == {"debug", "release"}

\* mutant: the limit is checked one byte late
over_limit_off_by_one(len, more, limit) == len + more > limit + 1

\* `accum.len().checked_add(n).map_or(true, |len| len > self.limit)`
over_limit(len, more, limit) == len + more > limit

\* ReadTextField::poll, the chunk after the recombination: the limit check, the
\* conversion to UTF-8 and the hold-back of a cut-off tail
decode_rest(rt, next_chunk, build) ==
  IF over_limit(Len(rt.accum), Len(next_chunk), rt.limit) THEN TR(rt, "Err", "limit")
  ELSE IF from_utf8(next_chunk)
    THEN TR([rt EXCEPT !.accum = @ \o next_chunk], "Ok", "")
  ELSE IF Len(next_chunk) < 4
    \* `next_chunk.len() - 4` on usize
    THEN IF build = "debug" THEN TR(rt, "Panic", "overflow") ELSE TR(rt, "Err", "utf8")
  ELSE IF valid_up_to(next_chunk, 1) > Len(next_chunk) - 4
    THEN TR([rt EXCEPT !.accum = @ \o SubSeq(next_chunk, 1, valid_up_to(next_chunk, 1)),
                       !.prev_chunk = SubSeq(next_chunk, valid_up_to(next_chunk, 1) + 1,
                                             Len(next_chunk))], "Ok", "")
  ELSE TR(rt, "Err", "utf8")

\* ReadTextField::poll, the body of the loop for one chunk of the field
decode_chunk(rt, next_chunk, build) ==
  IF rt.prev_chunk = <<>> THEN decode_rest(rt, next_chunk, build)
  ELSE
    CHOOSE r \in
      { IF char_width < Len(prev)
          \* `char_width - prev_chunk.len()` on usize
          THEN IF build = "debug" THEN TR(taken, "Panic", "overflow")
               ELSE TR(taken, "Err", "incomplete")
        ELSE IF Len(next_chunk) < char_width - Len(prev)
          THEN TR(taken, "Err", "incomplete")
        ELSE IF over_limit(Len(rt.accum) + Len(prev), Len(next_chunk), rt.limit)
          THEN TR(taken, "Err", "limit")
        \* buf[prev_chunk.len()..] has 4 - prev_chunk.len() bytes, the source needed_len
        ELSE IF 4 - Len(prev) # char_width - Len(prev)
          THEN TR(taken, "Panic", "copy_from_slice")
        ELSE IF ~from_utf8(prev \o SubSeq(next_chunk, 1, char_width - Len(prev)))
          THEN TR(taken, "Err", "utf8")
        ELSE decode_rest([taken EXCEPT !.accum = @ \o prev
                                         \o SubSeq(next_chunk, 1, char_width - Len(prev))],
                         SubSeq(next_chunk, char_width - Len(prev) + 1, Len(next_chunk)),
                         build)
        : prev \in {rt.prev_chunk},
          char_width \in {utf8_char_width(rt.prev_chunk[1])},
          taken \in {[rt EXCEPT !.prev_chunk = <<>>]} } : TRUE

\* ReadTextField::try_take_string: the error, or the text taken out of accum
try_take_string(rt) ==
  IF rt.prev_chunk # <<>>
  THEN [rt |-> rt, t |-> "Err", v |-> "incomplete at end", text |-> <<>>]
  ELSE [rt |-> [rt EXCEPT !.accum = <<>>], t |-> "Ok", v |-> "", text |-> rt.accum]

\* the value of a byte of the wire
ByteOf(sym) ==
  CASE sym = "h" -> 104 [] sym = "e" -> 101 [] sym = "l" -> 108 [] sym = "o" -> 111
    [] sym = CR -> 13 [] sym = LF -> 10 [] sym = "-" -> 45 [] sym = "B" -> 66

\* BodyChunk::as_slice
as_slice(chunk) == [i \in 1..Len(chunk) |-> ByteOf(chunk[i])]

\* the stream a ReadTextField reads.  kind "chunks": a stream of chunks, with the
\* items that have arrived (q) and whether the body has been delivered whole (done);
\* kind "field": a FieldData over the Multipart m and its inbound stream
source_poll(src) ==
  IF src.kind = "field"
  THEN CHOOSE r \in
         { [src |-> [src EXCEPT !.m = c.m, !.q = c.q],
            res |-> IF c.res.t = "Some" THEN ReadySome(as_slice(c.res.v)) ELSE c.res]
           : c \in {poll_field_body(src.m, src.q, src.done)} } : TRUE
  ELSE [src |-> [src EXCEPT !.q = StreamPoll(src.q, src.done).q],
        res |-> StreamPoll(src.q, src.done).res]

\* what a call of ReadTextField::poll leaves and returns:
\*   t: Ready | NotReady | Err | Panic, v: the error or the panic,
\*   text: the text of the TextField, chunk: the chunk the call failed on,
\*   at: accum and prev_chunk when the call took that chunk
TP(rt, src, t, v, text, chunk) ==
  [rt |-> rt, src |-> src, t |-> t, v |-> v, text |-> text, chunk |-> chunk,
   at |-> [accum |-> rt.accum, prev_chunk |-> rt.prev_chunk]]

\* mutant: the FieldData is kept after the value
stream_kept == TRUE

\* `self.stream = None` once the text has been taken
stream_after_value == FALSE

\* <ReadTextField as Future>::poll
RECURSIVE ReadTextField_poll(_, _, _)
ReadTextField_poll(rt, src, build) ==
  IF ~rt.stream THEN TP(rt, src, "Panic", "polled after value", <<>>, <<>>)
  ELSE
    CHOOSE r \in
      { CASE p.res.t = "NotReady" -> TP(rt, p.src, "NotReady", "", <<>>, <<>>)
          [] p.res.t = "Err" -> TP(rt, p.src, "Err", p.res.v[1], <<>>, <<>>)
          [] p.res.t = "None" ->
               CHOOSE r2 \in
                 { IF s.t = "Err" THEN TP(s.rt, p.src, "Err", s.v, <<>>, <<>>)
                   ELSE TP([s.rt EXCEPT !.stream = stream_after_value], p.src, "Ready", "",
                           s.text, <<>>)
                   : s \in {try_take_string(rt)} } : TRUE
          [] OTHER ->
               CHOOSE r2 \in
                 { IF d.t = "Ok" THEN ReadTextField_poll(d.rt, p.src, build)
                   ELSE [TP(rt, p.src, d.t, d.v, <<>>, p.res.v) EXCEPT !.rt = d.rt]
                   : d \in {decode_chunk(rt, p.res.v, build)} } : TRUE
        : p \in {source_poll(src)} } : TRUE

\* ReadTextField::into_data
into_data(rt) == IF rt.stream THEN "Some" ELSE "None"

\* -------------------------------------------- a ReadTextField over a stream
\* field bodies: hi, abcd + U+1F600 (4 bytes), abcd + U+00E9 (2 bytes), abcd + the
\* lead byte of a 3-byte sequence, U+20AC (3 bytes) + ab, abcd + the byte FF (never
\* part of UTF-8)
TextBodies ==
  { <<104, 105>>,
    <<97, 98, 99, 100, 240, 159, 152, 128>>,
    <<97, 98, 99, 100, 195, 169>>,
    <<97, 98, 99, 100, 226>>,
    <<226, 130, 172, 97, 98>>,
    <<97, 98, 99, 100, 255>> }

TextLimits == {1, 5, 7, 8}

\* txt in the states of TextSpec:
\*   build, body: the build and the bytes of the field body
\*   sent, errs: bytes delivered and errors reported by the stream
\*   src: the stream the ReadTextField owns
\*   rt: the ReadTextField
\*   last: what its poll returned last (t = "none" before the first call)
\*   taken: what into_data returned ("no": not called)
\*   empties: the stream has delivered an empty chunk
\*   cuts: the chunks with bytes the stream has delivered
\*   whole: every chunk delivered so far is valid UTF-8 by itself
TextInit ==
  /\ NewRequest({BodyAB})
  /\ fold = Unused
  /\ mock = Unused
  /\ sink = Unused
  /\ \E b \in TextBodies, l \in TextLimits, bd \in Builds :
       txt = [used |-> TRUE, build |-> bd, body |-> b, sent |-> 0, errs |-> 0,
              src |-> [kind |-> "chunks", q |-> <<>>, done |-> Len(b) = 0],
              rt |-> read_text(l),
              last |-> [t |-> "none", v |-> "", text |-> <<>>, chunk |-> <<>>,
                        at |-> [accum |-> <<>>, prev_chunk |-> <<>>]],
              taken |-> "no", empties |-> FALSE, cuts |-> 0, whole |-> TRUE]

TextLive == txt.taken = "no" /\ txt.last.t # "Panic"

\* the field's stream has its next k bytes as one chunk
TextArrive ==
  /\ TextLive
  /\ Len(txt.src.q) < MaxPending
  /\ \E k \in 0..(Len(txt.body) - txt.sent) :
       txt' = [txt EXCEPT !.src.q = Append(@, Chunk(SubSeq(txt.body, txt.sent + 1, txt.sent + k))),
                          !.src.done = (txt.sent + k = Len(txt.body)),
                          !.sent = @ + k,
                          !.empties = @ \/ k = 0,
                          !.cuts = IF k = 0 THEN @ ELSE @ + 1,
                          !.whole = @ /\ from_utf8(SubSeq(txt.body, txt.sent + 1, txt.sent + k))]
  /\ UNCHANGED <<parserVars, fold, mock, sink>>

\* the field's stream reports an error
TextError ==
  /\ TextLive
  /\ txt.errs < MaxErrs
  /\ Len(txt.src.q) < MaxPending
  /\ txt' = [txt EXCEPT !.src.q = Append(@, ErrItem), !.errs = @ + 1]
  /\ UNCHANGED <<parserVars, fold, mock, sink>>

\* the task polls the future; a future that has completed is not polled again
TextPoll ==
  /\ TextLive
  /\ txt.last.t \in {"none", "NotReady"}
  /\ \E r \in {ReadTextField_poll(txt.rt, txt.src, txt.build)} :
       txt' = [txt EXCEPT !.rt = r.rt, !.src = r.src,
                          !.last = [t |-> r.t, v |-> r.v, text |-> r.text, chunk |-> r.chunk,
                                    at |-> r.at]]
  /\ UNCHANGED <<parserVars, fold, mock, sink>>

\* the owner takes the future apart
IntoData ==
  /\ TextLive
  /\ txt' = [txt EXCEPT !.taken = into_data(txt.rt)]
  /\ UNCHANGED <<parserVars, fold, mock, sink>>

TextNext == TextArrive \/ TextError \/ TextPoll \/ IntoData

TextSpec == TextInit /\ [][TextNext]_vars

\* ------------------------------------------------------------------ claims
Valid == body \in ValidBodies

InFlightRefusal == PollRes("NotReady", <<>>, "in flight")

\* C1: a MultipartStream::poll made while a FieldData is still alive returns NotReady;
\* it yields no second Field, no end-of-stream, no error, and nothing faults.
C1_PollWhileFieldAlive ==
  /\ ~fault
  /\ (lastOp = "Poll" /\ pre.inFlight) => lastPoll = InFlightRefusal

C1_Witness == lastOp = "Poll" /\ pre.inFlight /\ field = "alive" /\ lastPoll = InFlightRefusal

\* C2: the strong count of the shared handle is 1 (no FieldData) or 2 (exactly one
\* FieldData) and never more, and a step in which MultipartStream::poll changes the
\* Multipart (the BoundaryFinder, the header accumulator, the consumed flag) or takes
\* an item from the inbound stream starts from a count of exactly 1.
C2_OneFieldData ==
  /\ [](strong = (IF field = "none" THEN 1 ELSE 2))
  /\ [][(/\ lastOp' = "Poll" /\ sent' = sent /\ errs' = errs
          /\ (multi' # multi \/ pending' # pending)) => strong = 1]_vars

C2_Witness == strong = 2 /\ field = "alive" /\ lastOp = "FieldPoll" /\ datas[Len(datas)] # <<>>

\* C3: no lost wake-up.  A task that was refused because a field was in flight is
\* notified once that FieldData is gone, the count is back to 1 for as long as the
\* notification is pending, and the poll the woken task makes is not refused for a
\* field in flight.
C3_NoLostWakeup ==
  /\ (lastPoll = InFlightRefusal /\ field = "none") => (notified /\ ~waiting)
  /\ notified => strong = 1
  /\ (lastOp = "Poll" /\ pre.woken) => (~pre.inFlight /\ lastPoll # InFlightRefusal)

C3_Witness == lastOp = "Poll" /\ pre.woken /\ lastPoll.t = "Field" /\ Len(yielded) = 2

\* C4: once a FieldData is leaked it stays leaked, every later MultipartStream::poll
\* returns NotReady, no field, end-of-stream or error is produced, and the task
\* recorded as waiting is never notified.
C4_LeakStalls ==
  [][field = "leaked" =>
       /\ field' = "leaked"
       /\ ~notified'
       /\ yielded' = yielded /\ ended' = ended /\ errored' = errored
       /\ strong' = 2
       /\ lastOp' = "Poll" => (lastPoll' = InFlightRefusal /\ waiting')]_vars

C4_Witness == field = "leaked" /\ lastOp = "Poll" /\ lastPoll = InFlightRefusal /\ waiting

\* C5: for a valid body the fields come out in body order, none skipped, repeated or
\* reordered, whatever the chunking and the NotReady results in between; when the
\* stream ends every field has been yielded.
C5_FieldOrder ==
  Valid => /\ IsPrefix(yielded, FieldNames(body))
           /\ ended => yielded = FieldNames(body)

C5_Witness ==
  /\ body = BodyAB /\ ended /\ yielded = << <<"a">>, <<"b">> >>
  /\ lastOp = "Poll" /\ ~pre.ended /\ ~abandoned

\* C6: once the boundary scanner has reported that no field follows, the stream has
\* returned end-of-stream, and every poll since has returned end-of-stream too.
C6_EndIsPermanent ==
  multi.stream.state = "End" => (ended /\ lastPoll = PollRes("None", <<>>, "end"))

C6_Witness ==
  /\ multi.stream.state = "End" /\ lastOp = "Poll" /\ pre.ended
  /\ lastPoll.t = "None"

\* C7 (as claimed): after MultipartStream::poll has returned an error no later poll
\* yields a Field.
C7_ErrorEndsStream == (lastOp = "Poll" /\ pre.errored) => lastPoll.t # "Field"

\* C8: one boundary is consumed per result of read_headers that poll_field_head returns
\* (a header block, or None for a part without headers), the consumed flag being set
\* exactly between the two; a call made with the flag set consumes no boundary.
C8_OneBoundaryPerHeaders ==
  /\ nBoundary = nHeaders + (IF multi.consumed THEN 1 ELSE 0)
  /\ (lastOp = "Poll" /\ pre.consumed) => nBoundary = pre.nBoundary

C8_Witness ==
  /\ lastOp = "Poll" /\ pre.consumed /\ lastPoll.t = "Field" /\ nHeaders = 2
  /\ nBoundary = 2 /\ errs = 0

\* C9: after a FieldData was dropped with its body unread, the next poll is not refused
\* for a field in flight, the fields that follow are the next parts of the body, and
\* no byte of the abandoned field shows up in a later field's body or is parsed as a
\* header.
C9_Cancellation ==
  /\ (lastOp = "Poll" /\ pre.cancelled) => lastPoll # InFlightRefusal
  /\ (Valid /\ abandoned) =>
       /\ IsPrefix(yielded, FieldNames(body))
       /\ \A i \in 1..Len(datas) : IsPrefix(datas[i], FieldBodies(body)[i])
       /\ lastPoll.t = "Err" => lastPoll.v = <<"transport">>
       /\ ended => yielded = FieldNames(body)

C9_Witness ==
  /\ Valid /\ abandoned /\ lastOp = "Poll" /\ pre.cancelled
  /\ lastPoll = PollRes("Field", <<"b">>, "headers") /\ datas[1] = <<"h">>

\* C10: whatever the chunking of a valid body, the fields yielded and the body bytes
\* read per field are those of the same body fed as one single chunk.
C10_SplitInvariance ==
  Valid => /\ single.end = "None"
           /\ IsPrefix(yielded, single.names)
           /\ ended => yielded = single.names
           /\ \A i \in 1..Len(datas) : IsPrefix(datas[i], single.datas[i])
           /\ (exhausted /\ datas # <<>>) => datas[Len(datas)] = single.datas[Len(datas)]

C10_Witness ==
  /\ Valid /\ lastOp = "FieldPoll" /\ field = "alive"
  /\ multi.stream.buf = <<CR, LF, "-">>
  /\ datas = << single.datas[1] >> /\ single.datas[1] = <<"h", "i">>

\* ------------------------------ read_text over a field of MultipartStream
\* txt in the states of TextFieldSpec:
\*   build: the build; rt: the ReadTextField, once attached by read_text
\*   last: what its poll returned last (t = "none" before the first call)
TextFieldInit ==
  /\ NewRequest({BodyHello})
  /\ fold = Unused
  /\ mock = Unused
  /\ sink = Unused
  /\ \E bd \in Builds :
       txt = [used |-> TRUE, build |-> bd, attached |-> FALSE, rt |-> read_text(DEFAULT_LIMIT),
              last |-> [t |-> "none", v |-> "", text |-> <<>>, chunk |-> <<>>,
                        at |-> [accum |-> <<>>, prev_chunk |-> <<>>]]]

\* read_text(field.headers, field.data)
ReadText ==
  /\ ~fault
  /\ field = "alive"
  /\ ~txt.attached
  /\ txt' = [txt EXCEPT !.attached = TRUE]
  /\ UNCHANGED <<parserVars, fold, mock, sink>>

\* <ReadTextField as Future>::poll over the FieldData; with the value the FieldData
\* is dropped (<FieldData as Drop>::drop)
TextFieldPoll ==
  /\ ~fault
  /\ field = "alive"
  /\ txt.attached
  /\ txt.last.t \in {"none", "NotReady"}
  /\ lastOp' = "TextFieldPoll"
  /\ IF stream_mut_ok(strong)
     THEN \E r \in {ReadTextField_poll(txt.rt,
                                       [kind |-> "field", m |-> multi, q |-> pending,
                                        done |-> Done],
                                       txt.build)} :
            /\ multi' = r.src.m
            /\ pending' = r.src.q
            /\ txt' = [txt EXCEPT !.rt = r.rt,
                                  !.last = [t |-> r.t, v |-> r.v, text |-> r.text,
                                            chunk |-> r.chunk, at |-> r.at]]
            /\ fault' = (r.t = "Panic")
            /\ IF r.rt.stream
               THEN UNCHANGED <<waiting, notified, strong, field, exhausted>>
               ELSE /\ waiting' = notify_task(waiting, notified).waiting
                    /\ notified' = notify_task(waiting, notified).notified
                    /\ strong' = strong - 1
                    /\ field' = "none"
                    /\ exhausted' = TRUE
     ELSE /\ fault' = TRUE
          /\ UNCHANGED <<multi, pending, txt, waiting, notified, strong, field, exhausted>>
  /\ UNCHANGED <<body, sent, errs, lastPoll, pre, yielded, datas, nBoundary, nHeaders,
                 ended, errored, abandoned, single, fold, mock, sink>>

TextFieldNext == Arrive \/ Poll \/ ReadText \/ TextFieldPoll \/ Drop

TextFieldSpec == TextFieldInit /\ [][TextFieldNext]_vars

\* ------------------------------------------- fold_fields of server/fold.rs
\* Option<T>: << >> for None, <<x>> for Some(x)
\* a future of init_state or fold_chunk: ready with val after wait polls
Fut(val, wait) == [val |-> val, wait |-> wait]

\* the closures of the caller: the fold state is the field's name and the chunks
\* folded into it so far, in order
init_state(headers) == [name |-> headers, chunks |-> << >>]

fold_chunk(state, chunk) == [state EXCEPT !.chunks = Append(@, chunk)]

\* the captured variables of the closure given to stream::poll_fn, and a log:
\*   init_fut, state, fold_fut: the three Options
\*   initWait, foldWait: how often a future of init_state, fold_chunk is not ready
\*   calls: the calls of init_state and fold_chunk, in order
NewFold(iw, fw) ==
  [init_fut |-> << >>, state |-> << >>, fold_fut |-> << >>,
   initWait |-> iw, foldWait |-> fw, calls |-> << >>]

\* what one call of the closure leaves and returns; why: the statement that returned
FF(f, m, q, res, why) == [f |-> f, m |-> m, q |-> q, res |-> res, why |-> why]

RECURSIVE fold_fields_poll(_, _, _, _)

\* fold.rs 54-59: `match self.poll_field_head()?`
fold_head(f, m, q, done) ==
  CHOOSE r \in
    { CASE h.res.t = "Some" ->
             fold_fields_poll(
               [f EXCEPT !.init_fut = <<Fut(init_state(h.res.v), f.initWait)>>,
                         !.calls = Append(@, [op |-> "init", name |-> h.res.v,
                                              state |-> << >>, chunk |-> << >>])],
               h.m, h.q, done)
        [] h.res.t = "None" -> FF(f, h.m, h.q, ReadyNone, "head")
        [] OTHER -> FF(f, h.m, h.q, h.res, "head")
      : h \in {poll_field_head(m, q, done)} } : TRUE

\* fold.rs 49-52: the fold future is taken and polled with the one-argument
\* try_ready_ext!, which restores nothing
fold_fold_fut(f, m, q, done) ==
  IF f.fold_fut = << >> THEN fold_head(f, m, q, done)
  ELSE IF f.fold_fut[1].wait > 0
    THEN FF([f EXCEPT !.fold_fut = << >>], m, q, NotReady, "fold_fut")
  ELSE fold_head([f EXCEPT !.fold_fut = << >>, !.state = <<f.fold_fut[1].val>>], m, q, done)

\* fold.rs 43-47: the state is taken, try_ready_opt!(self.poll_field_body(), None)
fold_state(f, m, q, done) ==
  IF f.state = << >> THEN fold_fold_fut(f, m, q, done)
  ELSE
    CHOOSE r \in
      { CASE c.res.t = "Some" ->
               fold_fold_fut(
                 [f EXCEPT !.state = << >>,
                           !.fold_fut = <<Fut(fold_chunk(f.state[1], c.res.v), f.foldWait)>>,
                           !.calls = Append(@, [op |-> "fold", name |-> f.state[1].name,
                                                state |-> f.state, chunk |-> c.res.v])],
                 c.m, c.q, done)
          \* `$statel = $end; return ready(None);`
          [] c.res.t = "None" -> FF(f, c.m, c.q, ReadyNone, "body")
          \* `$statel = $restore;` with None for $restore
          [] OTHER -> FF([f EXCEPT !.state = << >>], c.m, c.q, c.res, "body")
        : c \in {poll_field_body(m, q, done)} } : TRUE

\* fold.rs 36-61: one call of the closure; 38-41: the init future is taken and polled
\* with the one-argument try_ready_ext!
fold_fields_poll(f, m, q, done) ==
  IF f.init_fut = << >> THEN fold_state(f, m, q, done)
  ELSE IF f.init_fut[1].wait > 0
    THEN FF([f EXCEPT !.init_fut = << >>], m, q, NotReady, "init_fut")
  ELSE fold_state([f EXCEPT !.init_fut = << >>, !.state = <<f.init_fut[1].val>>], m, q, done)

FoldBodies == {BodyAB, BodyEmptyField, BodyTruncated}

Waits == {0, 1}

\* fold in the states of FoldSpec: the closure's variables (f) and
\*   fused: stream::Fuse has seen the end of the stream
\*   items: what the stream has yielded, in order
\*   last, why: what its poll returned last and from which statement of the closure
\*   ends: the polls of a field's body that returned None
FoldInit ==
  /\ NewRequest(FoldBodies)
  /\ txt = Unused
  /\ mock = Unused
  /\ sink = Unused
  /\ \E iw \in Waits, fw \in Waits :
       fold = [used |-> TRUE, f |-> NewFold(iw, fw), fused |-> FALSE, items |-> << >>,
               last |-> Res("none", << >>), why |-> "", ends |-> 0, errored |-> FALSE]

\* Stream::poll of the stream fold_fields returns: stream::poll_fn(..).fuse()
FoldPoll ==
  /\ IF fold.fused
     THEN /\ fold' = [fold EXCEPT !.last = ReadyNone]
          /\ UNCHANGED <<multi, pending>>
     ELSE \E r \in {fold_fields_poll(fold.f, multi, pending, Done)} :
            /\ multi' = r.m
            /\ pending' = r.q
            /\ fold' = [fold EXCEPT !.f = r.f,
                                    !.fused = r.res.t = "None",
                                    !.items = IF r.res.t = "Some" THEN Append(@, r.res.v) ELSE @,
                                    !.last = r.res,
                                    !.why = r.why,
                                    !.ends = IF r.why = "body" /\ r.res.t = "None"
                                             THEN @ + 1 ELSE @,
                                    !.errored = @ \/ r.res.t = "Err"]
  /\ UNCHANGED <<body, sent, errs, waiting, strong, field, exhausted, notified, fault,
                 lastOp, lastPoll, pre, yielded, datas, nBoundary, nHeaders, ended,
                 errored, abandoned, single, txt, mock, sink>>

FoldNext == Arrive \/ TransportError \/ FoldPoll

FoldSpec == FoldInit /\ [][FoldNext]_vars

\* ---------------------------------------- FoldFields of server/field/fold.rs
\* enum FoldState { ReadHeaders, InitFut(IFut), ReadyState(IFut::Item), Future(Fut) }
ReadHeaders == [tag |-> "ReadHeaders", x |-> << >>]
InitFut(ifut) == [tag |-> "InitFut", x |-> ifut]
ReadyState(state) == [tag |-> "ReadyState", x |-> state]
Future(fut) == [tag |-> "Future", x |-> fut]

\* Multipart::fold_fields of server/field/fold.rs
\*   state: the FoldState; initWait, foldWait, calls: as for NewFold
NewFoldFields(iw, fw) ==
  [state |-> ReadHeaders, initWait |-> iw, foldWait |-> fw, calls |-> << >>]

\* mutant: the placeholder of mem::replace is left in place
placeholder_left(step) == ReadHeaders

\* `$statel = $restore` of the two- and three-argument try_ready_opt! / try_ready_ext!
restore(step) == step

\* mutant: the stream ends with the field
ret_end_none(state) == ReadyNone

\* `return ready($ret_end)` with the fold state for $ret_end
ret_end(state) == ReadySome(state)

\* <FoldFields as Stream>::poll
RECURSIVE FoldFields_poll(_, _, _, _)
FoldFields_poll(f, m, q, done) ==
  CASE f.state.tag = "ReadHeaders" ->
         \* try_ready_opt!(self.multi.read_headers())
         CHOOSE r \in
           { IF h.res.t = "Some"
             THEN FoldFields_poll(
                    [f EXCEPT !.state = InitFut(Fut(init_state(h.res.v), f.initWait)),
                              !.calls = Append(@, [op |-> "init", name |-> h.res.v,
                                                   state |-> << >>, chunk |-> << >>])],
                    h.m, h.q, done)
             ELSE FF([f EXCEPT !.state = ReadHeaders], h.m, h.q, h.res, "head")
             : h \in {poll_field_head(m, q, done)} } : TRUE
    [] f.state.tag = "InitFut" ->
         \* try_ready_ext!(ifut.poll(), InitFut(ifut))
         IF f.state.x.wait < 0
         THEN FF([f EXCEPT !.state = restore(InitFut(f.state.x))], m, q, Error("init"),
                 "init_fut")
         ELSE IF f.state.x.wait > 0
         THEN FF([f EXCEPT !.state = restore(InitFut([f.state.x EXCEPT !.wait = @ - 1]))],
                 m, q, NotReady, "init_fut")
         ELSE FoldFields_poll([f EXCEPT !.state = ReadyState(f.state.x.val)], m, q, done)
    [] f.state.tag = "ReadyState" ->
         \* try_ready_opt!(self.multi.body_chunk(), ReadyState(state), state)
         CHOOSE r \in
           { CASE c.res.t = "Some" ->
                    FoldFields_poll(
                      [f EXCEPT !.state = Future(Fut(fold_chunk(f.state.x, c.res.v), f.foldWait)),
                                !.calls = Append(@, [op |-> "fold", name |-> f.state.x.name,
                                                     state |-> <<f.state.x>>,
                                                     chunk |-> c.res.v])],
                      c.m, c.q, done)
               [] c.res.t = "None" ->
                    FF([f EXCEPT !.state = ReadHeaders], c.m, c.q, ret_end(f.state.x), "body")
               [] OTHER ->
                    FF([f EXCEPT !.state = restore(ReadyState(f.state.x))], c.m, c.q, c.res,
                       "body")
             : c \in {poll_field_body(m, q, done)} } : TRUE
    [] OTHER ->
         \* try_ready_ext!(fut.poll(), Future(fut))
         IF f.state.x.wait < 0
         THEN FF([f EXCEPT !.state = restore(Future(f.state.x))], m, q, Error("fold"),
                 "fold_fut")
         ELSE IF f.state.x.wait > 0
         THEN FF([f EXCEPT !.state = restore(Future([f.state.x EXCEPT !.wait = @ - 1]))],
                 m, q, NotReady, "fold_fut")
         ELSE FoldFields_poll([f EXCEPT !.state = ReadyState(f.state.x.val)], m, q, done)

\* what the futures of the closures do: ready after 0 or 1 polls, or (-1) failed;
\* a failed future fails again when it is polled again
FutureOutcomes == Waits \cup {-1}

\* fold in the states of FoldFieldsSpec: the FoldFields (f) and
\*   items: what the stream has yielded, in order
\*   last, why: what its poll returned last and from which step
FoldFieldsInit ==
  /\ NewRequest(FoldBodies)
  /\ txt = Unused
  /\ mock = Unused
  /\ sink = Unused
  /\ \E iw \in FutureOutcomes, fw \in FutureOutcomes :
       fold = [used |-> TRUE, f |-> NewFoldFields(iw, fw), items |-> << >>,
               last |-> Res("none", << >>), why |-> ""]

FoldFieldsPoll ==
  /\ \E r \in {FoldFields_poll(fold.f, multi, pending, Done)} :
       /\ multi' = r.m
       /\ pending' = r.q
       /\ fold' = [fold EXCEPT !.f = r.f,
                               !.items = IF r.res.t = "Some" THEN Append(@, r.res.v) ELSE @,
                               !.last = r.res,
                               !.why = r.why]
  /\ UNCHANGED <<body, sent, errs, waiting, strong, field, exhausted, notified, fault,
                 lastOp, lastPoll, pre, yielded, datas, nBoundary, nHeaders, ended,
                 errored, abandoned, single, txt, mock, sink>>

FoldFieldsNext == Arrive \/ TransportError \/ FoldFieldsPoll

FoldFieldsSpec == FoldFieldsInit /\ [][FoldFieldsNext]_vars

\* ------------------------------------------------- claims on ReadTextField
\* the poll of the ReadTextField has ended: a value, an error or a panic
TextEnded == txt.last.t \in {"Ready", "Err", "Panic"}

LimitError == txt.last.t = "Err" /\ txt.last.v = "limit"

\* C11, as amended: no TextField is longer than the limit in bytes, and a field body
\* longer than the limit never yields a TextField, for every chunking; the read ends
\* with the limit-exceeded error whenever every chunk is valid UTF-8 by itself.
C11_LimitEnforced ==
  /\ txt.last.t = "Ready" => Len(txt.last.text) <= txt.rt.limit
  /\ (Len(txt.body) > txt.rt.limit /\ txt.errs = 0) => txt.last.t # "Ready"
  /\ (Len(txt.body) > txt.rt.limit /\ txt.errs = 0 /\ txt.whole /\ TextEnded) => LimitError

C11_Witness ==
  /\ Len(txt.body) = txt.rt.limit + 1 /\ txt.errs = 0 /\ txt.whole /\ LimitError
  /\ txt.last.at.accum # <<>>

\* C11, as stated: a field body longer than the limit makes the read fail with the
\* limit-exceeded error, for every chunking of the body.
C11_LimitErrorForEveryChunking ==
  (Len(txt.body) > txt.rt.limit /\ txt.errs = 0 /\ ~txt.empties /\ TextEnded) => LimitError

\* C12: accum.len() + prev_chunk.len() <= limit in every state of the decoder, and a
\* chunk that would break the bound ends the read with the limit error: it is neither
\* appended nor held back.
C12_AccumWithinLimit ==
  /\ Len(txt.rt.accum) + Len(txt.rt.prev_chunk) <= txt.rt.limit
  /\ LimitError =>
       /\ Len(txt.last.at.accum) + Len(txt.last.at.prev_chunk) + Len(txt.last.chunk)
            > txt.rt.limit
       /\ txt.rt.accum = txt.last.at.accum
       /\ txt.rt.prev_chunk = <<>>

C12_Witness ==
  /\ LimitError /\ txt.last.at.prev_chunk # <<>>
  /\ Len(txt.rt.accum) + Len(txt.last.at.prev_chunk) = txt.rt.limit

\* C13: a valid UTF-8 string within the limit, fed as one chunk or cut in two at any
\* byte offset, comes back as a TextField with exactly that text.
C13_Utf8RoundTrip ==
  (/\ from_utf8(txt.body) /\ Len(txt.body) <= txt.rt.limit
   /\ txt.errs = 0 /\ ~txt.empties /\ txt.cuts <= 2 /\ txt.sent = Len(txt.body)
   /\ TextEnded)
  => (txt.last.t = "Ready" /\ txt.last.text = txt.body)

\* chunks that complete a cut-off sequence
Completions == {<<130>>, <<130, 172>>, <<159, 152, 128>>}

EndsIncomplete(b) == ~from_utf8(b) /\ \E ext \in Completions : from_utf8(b \o ext)

\* C14: a field body that ends inside a multi-byte sequence makes the read fail with
\* the incomplete-sequence error.
C14_TruncatedSequence ==
  (/\ EndsIncomplete(txt.body) /\ Len(txt.body) <= txt.rt.limit
   /\ txt.errs = 0 /\ ~txt.empties /\ TextEnded)
  => (txt.last.t = "Err" /\ txt.last.v \in {"incomplete at end", "incomplete"})

\* C15: after the limit error the chunk that tripped the limit is still held by the
\* ReadTextField.
C15_OffendingChunkSaved ==
  LimitError =>
    \/ txt.rt.prev_chunk = txt.last.chunk
    \/ /\ Len(txt.rt.accum) >= Len(txt.last.chunk)
       /\ SubSeq(txt.rt.accum, Len(txt.rt.accum) - Len(txt.last.chunk) + 1,
                 Len(txt.rt.accum)) = txt.last.chunk

\* C16: the ReadTextField holds its stream until poll has returned the TextField:
\* into_data gives None exactly then, and Some after construction, NotReady or an error.
C16_IntoData ==
  /\ txt.rt.stream <=> txt.last.t # "Ready"
  /\ txt.taken # "no" => (txt.taken = "None" <=> txt.last.t = "Ready")

C16_Witness ==
  /\ txt.taken = "None" /\ txt.last.t = "Ready"
  /\ txt.last.text = <<97, 98, 99, 100, 240, 159, 152, 128>> /\ txt.cuts = 2

\* ------------------------------------------- claims on the held-back sequence
\* the held-back tail, and the chunk the next poll takes from the stream
Held == txt.rt.prev_chunk

NextChunk == Head(txt.src.q).b

\* the step is a poll that takes a chunk from the stream
TakesChunk ==
  /\ txt.src.q # <<>>
  /\ Head(txt.src.q).t = "chunk"
  /\ Len(txt'.src.q) < Len(txt.src.q)

\* the length of the UTF-8 sequence a lead byte starts, 0 for any other byte
LeadWidth(b) ==
  CASE b \in 0..127 -> 1
    [] b \in 194..223 -> 2
    [] b \in 224..239 -> 3
    [] b \in 240..244 -> 4
    [] OTHER -> 0

\* the bytes the held-back tail lacks
Needed == LeadWidth(Held[1]) - Len(Held)

\* what the poll of the step leaves as text: the TextField, or accum
TextAfter == IF txt'.last.t = "Ready" THEN txt'.last.text ELSE txt'.rt.accum

\* C24: while a sequence is held back, a next chunk with fewer bytes than the
\* sequence lacks (an empty chunk too) ends the read with the incomplete-sequence
\* error at once: the poll does not go on to further chunks and appends nothing.
C24_ShortChunkFails ==
  [][(TakesChunk /\ Held # <<>> /\ Len(NextChunk) < Needed) =>
       /\ txt'.last.t = "Err" /\ txt'.last.v = "incomplete"
       /\ txt'.last.chunk = NextChunk
       /\ txt'.rt.accum = txt.rt.accum
       /\ Len(txt'.src.q) = Len(txt.src.q) - 1]_vars

\* the lead byte of a 4-byte sequence held back, two of its three bytes supplied
C24_Witness ==
  /\ txt.last.t = "Err" /\ txt.last.v = "incomplete"
  /\ txt.last.at.prev_chunk = <<240>> /\ txt.last.chunk = <<159, 152>>
  /\ txt.rt.accum = <<97, 98, 99, 100>>

\* C25: with a sequence held back and a next chunk that has the bytes it lacks, the
\* poll does not fault, for a sequence of 2, 3 or 4 bytes; if the recombined sequence
\* is valid and within the limit, it is appended after the text so far, once, and
\* the decoding goes on with the rest of the chunk.
C25_Recombine ==
  [][(TakesChunk /\ Held # <<>> /\ Needed >= 1 /\ Len(NextChunk) >= Needed) =>
       /\ txt'.last.t # "Panic"
       /\ (/\ from_utf8(Held \o SubSeq(NextChunk, 1, Needed))
           /\ Len(txt.rt.accum) + Len(Held) + Len(NextChunk) <= txt.rt.limit)
          => IsPrefix(txt.rt.accum \o Held \o SubSeq(NextChunk, 1, Needed), TextAfter)]_vars

\* C26: a chunk that fails the UTF-8 validation has its invalid suffix held back,
\* and its valid prefix appended, exactly if that suffix is at most 3 bytes long;
\* with a longer suffix the read ends with the UTF-8 error.  This holds for chunks
\* of every length, the ones shorter than 4 bytes included.
C26_HoldBackRule ==
  [][(/\ TakesChunk /\ Held = <<>> /\ ~from_utf8(NextChunk)
      /\ Len(txt.rt.accum) + Len(NextChunk) <= txt.rt.limit) =>
       IF Len(NextChunk) - valid_up_to(NextChunk, 1) <= 3
       THEN /\ txt'.last.t # "Panic"
            /\ ~(txt'.last.t = "Err" /\ txt'.last.v = "utf8")
            /\ IsPrefix(txt.rt.accum \o SubSeq(NextChunk, 1, valid_up_to(NextChunk, 1)),
                        TextAfter)
       ELSE txt'.last.t = "Err" /\ txt'.last.v = "utf8"]_vars

\* C27: the held-back tail is absent or 1 to 3 bytes long, starts with the lead byte
\* of a sequence of 2 to 4 bytes and is shorter than that sequence, so that the
\* number of bytes it lacks is 1, 2 or 3.
C27_HeldTailShape ==
  Held # <<>> =>
    /\ Len(Held) \in 1..3
    /\ LeadWidth(Held[1]) \in 2..4
    /\ Needed \in 1..3

\* ------------------------------------- claims on fold_fields (server/fold.rs)
\* the calls of init_state among the first n calls of the closures
RECURSIVE Inits(_, _)
Inits(calls, n) ==
  IF n = 0 THEN 0 ELSE Inits(calls, n - 1) + (IF calls[n].op = "init" THEN 1 ELSE 0)

\* C17: each time the chunks of a field are exhausted (poll_field_body returns None)
\* the stream yields that field's latest fold state as its next item, one item per
\* field, and init_state is called for the next field only after that.
C17_FoldYieldsState ==
  /\ Len(fold.items) = fold.ends
  /\ Inits(fold.f.calls, Len(fold.f.calls)) <= Len(fold.items) + 1

\* C18: the stream ends only when poll_field_head returns None or after an error; the
\* end of one field's body does not end it.
C18_FoldEnd ==
  fold.last.t = "None" => (fold.why = "head" \/ fold.errored)

\* ------------------------------ claims on FoldFields (server/field/fold.rs)
FoldValid == body \in {BodyAB, BodyEmptyField}

RECURSIVE Flatten(_)
Flatten(ss) == IF ss = << >> THEN << >> ELSE Head(ss) \o Flatten(Tail(ss))

\* the chunks given to fold_chunk for the field name, in the order of the calls
RECURSIVE Folded(_, _)
Folded(calls, name) ==
  IF calls = << >> THEN << >>
  ELSE IF Head(calls).op = "fold" /\ Head(calls).name = name
    THEN <<Head(calls).chunk>> \o Folded(Tail(calls), name)
  ELSE Folded(Tail(calls), name)

\* C19: FoldFields yields one item per field, in field order; the item is the field's
\* initial state folded over all the chunks of its body in arrival order (the initial
\* state itself when the body is empty); the stream yields None once the headers
\* report the end of the request.
C19_FoldFields ==
  FoldValid =>
    /\ Len(fold.items) <= Len(FieldNames(body))
    /\ \A i \in 1..Len(fold.items) :
         /\ fold.items[i].name = FieldNames(body)[i]
         /\ fold.items[i].chunks = Folded(fold.f.calls, fold.items[i].name)
         /\ Flatten(fold.items[i].chunks) = FieldBodies(body)[i]
         /\ FieldBodies(body)[i] = << >> => fold.items[i] = init_state(FieldNames(body)[i])
    /\ fold.last.t = "None" => (fold.why = "head" /\ Len(fold.items) = Len(FieldNames(body)))

C19_Witness ==
  /\ body = BodyAB /\ fold.last.t = "None" /\ Len(fold.items) = 2
  /\ fold.items[1].chunks = << <<"h">>, <<"i">> >>
  /\ fold.f.initWait = 1 /\ fold.f.foldWait = 1

\* ------------------------------ the chunks fold_fields (server/fold.rs) folds
\* C28: fold_fields gives every chunk of a field's body to fold_chunk, once and in
\* the order of arrival, each time with the state the fold before it produced (the
\* initial state for the first chunk); init_state is not called for the next field
\* before the whole body of the current one has been folded.
C28_EveryChunkFolded ==
  FoldValid =>
    \A i \in 1..Len(fold.f.calls) :
      /\ fold.f.calls[i].op = "fold" =>
           fold.f.calls[i].state =
             << IF i > 1 /\ fold.f.calls[i - 1].op = "fold"
                THEN fold_chunk(fold.f.calls[i - 1].state[1], fold.f.calls[i - 1].chunk)
                ELSE init_state(fold.f.calls[i].name) >>
      /\ (fold.f.calls[i].op = "init" /\ Inits(fold.f.calls, i) > 1) =>
           Flatten(Folded(fold.f.calls, FieldNames(body)[Inits(fold.f.calls, i) - 1]))
             = FieldBodies(body)[Inits(fold.f.calls, i) - 1]

\* ----------------------- read_text over a field, with errors of the transport
TextFieldErrNext == TextFieldNext \/ TransportError

TextFieldErrSpec == TextFieldInit /\ [][TextFieldErrNext]_vars

\* the errors among the items the inbound stream holds
NumErr(q) == Cardinality({i \in DOMAIN q : q[i] = ErrItem})

\* C29: an error of the inbound stream comes out of poll_field_body (and so of
\* FieldData::poll) as it is, and the poll of the ReadTextField that meets it
\* returns that error: it is not wrapped, not swallowed and not retried, and that
\* poll produces no TextField (the future keeps its FieldData).
C29_StreamErrorSurfaced ==
  /\ []((pending # <<>> /\ Head(pending) = ErrItem
         /\ poll_field_body(multi, pending, Done).res.t = "Err")
        => /\ poll_field_body(multi, pending, Done).res = Error("transport")
           /\ poll_field_body(multi, pending, Done).q = Tail(pending))
  /\ [][(lastOp' = "TextFieldPoll" /\ NumErr(pending') < NumErr(pending)) =>
          /\ txt'.last.t = "Err" /\ txt'.last.v = "transport"
          /\ txt'.last.text = <<>>
          /\ txt'.rt.stream /\ field' = "alive"
          /\ NumErr(pending') = NumErr(pending) - 1]_vars

\* the error met after a part of the text had been read
C29_Witness ==
  /\ lastOp = "TextFieldPoll" /\ txt.last.t = "Err" /\ txt.last.v = "transport"
  /\ txt.rt.accum # <<>> /\ txt.rt.stream /\ field = "alive"

\* ------------------------------------ what a poll that is not ready leaves behind
\* the names init_state was called with, in the order of the calls
RECURSIVE InitNames(_)
InitNames(calls) ==
  IF calls = << >> THEN << >>
  ELSE IF Head(calls).op = "init" THEN <<Head(calls).name>> \o InitNames(Tail(calls))
  ELSE InitNames(Tail(calls))

\* C31: a poll of fold_fields (server/fold.rs) that returns NotReady loses nothing.
\* The future of init_state, the fold state or the future of fold_chunk that was
\* pending is still held afterwards, so that the next poll resumes at that step;
\* init_state is called once per field, in field order.
C31_NotReadyLosesNothing ==
  /\ (fold.last.t = "NotReady" /\ fold.why = "init_fut") => fold.f.init_fut # << >>
  /\ (fold.last.t = "NotReady" /\ fold.why = "body") => fold.f.state # << >>
  /\ (fold.last.t = "NotReady" /\ fold.why = "fold_fut") => fold.f.fold_fut # << >>
  /\ FoldValid => IsPrefix(InitNames(fold.f.calls), FieldNames(body))

\* ------------------------------------ the step FoldFields::poll stops at
\* the name of the field init_state was called for last
CurrentField == InitNames(fold.f.calls)[Len(InitNames(fold.f.calls))]

\* the poll returned NotReady or an error out of the step `why`
Interrupted(why) == fold.why = why /\ fold.last.t \in {"NotReady", "Err"}

\* C32: when FoldFields::poll returns NotReady or an error out of the InitFut, the
\* ReadyState or the Future step, the state it leaves is that step and not the
\* ReadHeaders placeholder, with the future or the fold state it was interrupted
\* with: the future of init_state for the current field, the fold state over the
\* chunks folded so far, the future of fold_chunk over them.  The headers of the
\* next field are read only after the item of the current field was yielded.
C32_StepRestored ==
  /\ Interrupted("init_fut") =>
       /\ fold.f.state.tag = "InitFut"
       /\ fold.f.state.x.val = init_state(CurrentField)
  /\ Interrupted("body") =>
       /\ fold.f.state.tag = "ReadyState"
       /\ fold.f.state.x = [name |-> CurrentField,
                            chunks |-> Folded(fold.f.calls, CurrentField)]
  /\ Interrupted("fold_fut") =>
       /\ fold.f.state.tag = "Future"
       /\ fold.f.state.x.val = [name |-> CurrentField,
                                chunks |-> Folded(fold.f.calls, CurrentField)]
  /\ Len(InitNames(fold.f.calls)) <= Len(fold.items) + 1

\* the future of fold_chunk not ready, with one chunk of field a folded before and
\* the second one in the future
C32_Witness ==
  /\ Interrupted("fold_fut") /\ fold.last.t = "NotReady"
  /\ fold.f.state.tag = "Future"
  /\ fold.f.state.x.val.chunks = << <<"h">>, <<"i">> >>

\* --------------------------------------------------------------- end to end
Hello == <<104, 101, 108, 108, 111>>

\* C20: the body --B CRLF Content-Disposition: form-data; name="a" CRLF CRLF hello
\* CRLF --B-- CRLF with boundary B makes MultipartStream yield exactly one field,
\* named a; read_text reads its text as hello and does not fail; with the text the
\* FieldData is gone, and the poll after the field is gone, made with the whole body
\* received, returns end-of-stream.
C20_EndToEnd ==
  /\ IsPrefix(yielded, << <<"a">> >>)
  /\ ended => yielded = << <<"a">> >>
  /\ txt.last.t \in {"none", "NotReady", "Ready"}
  /\ txt.last.t = "Ready" => (txt.last.text = Hello /\ field = "none")
  /\ (/\ lastOp = "Poll" /\ ~pre.inFlight /\ yielded # << >> /\ field = "none"
      /\ Done /\ pending = << >>)
     => lastPoll = PollRes("None", << >>, "end")

C20_Witness ==
  /\ txt.last.t = "Ready" /\ txt.last.text = Hello /\ yielded = << <<"a">> >>
  /\ lastOp = "Poll" /\ lastPoll = PollRes("None", << >>, "end") /\ pre.woken


\* ------------------------------------------- the destructor of FieldData, by step
\* <FieldData as Drop>::drop: the body of the destructor; the fields of the
\* FieldData (its Rc<Inner>) are still in place when it returns
DropNotify ==
  /\ ~fault
  /\ field = "alive"
  /\ lastOp' = "DropNotify"
  /\ \E n \in {notify_task(waiting, notified)} :
       /\ waiting' = n.waiting
       /\ notified' = n.notified
  /\ field' = "dropping"
  /\ abandoned' = (abandoned \/ ~exhausted)
  /\ UNCHANGED <<body, sent, errs, pending, multi, strong, exhausted, fault, lastPoll, pre,
                 yielded, datas, nBoundary, nHeaders, ended, errored, single>>
  /\ UNCHANGED <<txt, fold, mock, sink>>

\* the drop of FieldData.internal, after the body of the destructor: the strong
\* count goes down by one
DropRelease ==
  /\ ~fault
  /\ field = "dropping"
  /\ lastOp' = "DropRelease"
  /\ strong' = strong - 1
  /\ field' = "none"
  /\ UNCHANGED <<body, sent, errs, pending, multi, waiting, exhausted, notified, fault,
                 lastPoll, pre, yielded, datas, nBoundary, nHeaders, ended, errored,
                 abandoned, single>>
  /\ UNCHANGED <<txt, fold, mock, sink>>

\* MultipartStream::poll; inside the destructor only the task that Task::notify
\* has just woken can run
WokenPoll ==
  /\ field = "dropping" => notified
  /\ Poll

DropNext == Arrive \/ WokenPoll \/ FieldPoll \/ DropNotify \/ DropRelease

DropSpec == Init /\ [][DropNext]_vars

\* ----------------------------------------------- claims on the field in flight
\* C22: a MultipartStream::poll made while a FieldData exists leaves the Multipart
\* (consumed flag, header accumulator, BoundaryFinder and its byte cursor), the
\* inbound stream, the strong count and everything yielded so far as they were; it
\* returns NotReady and its only effect is the task recorded in the waiting slot.
C22_RefusedPollFrame ==
  [][(lastOp' = "Poll" /\ sent' = sent /\ errs' = errs /\ field # "none") =>
       /\ multi' = multi /\ pending' = pending
       /\ nBoundary' = nBoundary /\ nHeaders' = nHeaders
       /\ strong' = strong /\ field' = field /\ exhausted' = exhausted
       /\ yielded' = yielded /\ datas' = datas
       /\ ended' = ended /\ errored' = errored /\ fault' = fault
       /\ lastPoll' = InFlightRefusal
       /\ waiting']_vars

\* refused while a chunk was waiting on the inbound stream and the field's body
\* was partly read
C22_Witness ==
  /\ lastOp = "Poll" /\ lastPoll = InFlightRefusal /\ waiting /\ ~pre.woken
  /\ field = "alive" /\ pending # <<>> /\ datas[Len(datas)] # <<>>

\* C23: the destruction of a FieldData gives exclusive access back no later than
\* it wakes the waiting task: whenever a notification is pending the strong count
\* is 1, and the poll the woken task makes at that instant is not refused for a
\* field in flight.
C23_ExclusiveWhenNotified ==
  /\ notified => strong = 1
  /\ (lastOp = "Poll" /\ pre.woken) => lastPoll # InFlightRefusal

\* ---------------------------------------------------- MockStream (mock.rs)
\* items a MockStream is configured with
MaxItems == 2
\* the largest repeat count of an item
MaxRepeat == 2
\* polls made after the last configured result
MaxExtra == 2

\* Poll<Cow<[u8]>, StringError>: the results an item of a mock can hold
MockPolls == {Res("Ready", <<"x">>), Res("Ready", <<"y">>), NotReady, Error("mock")}

\* the configurations mock_stream!() and MockStream::new build
MockConfigs ==
  UNION { [1..n -> [item : MockPolls, repeat : 0..MaxRepeat]] : n \in 0..MaxItems }

\* MockStream::new
NewMockStream(config) == [items |-> config]

\* helpers::poll_into_opt: poll.map(|ok| ok.map(Some))
poll_into_opt(poll) == IF poll.t = "Ready" THEN ReadySome(poll.v) ELSE poll

\* mutant: the item to repeat goes to the back of the queue
push_back(items, item, repeat) == Append(items, [item |-> item, repeat |-> repeat])

\* self.items.push_front((item.clone(), repeat - 1)), given (item, repeat - 1)
push_front(items, item, repeat) == <<[item |-> item, repeat |-> repeat]>> \o items

\* <MockStream as Stream>::poll_next
poll_next(ms) ==
  IF ms.items = <<>>
  THEN [ms |-> ms, res |-> ReadyNone]
  ELSE [ms |-> [items |-> IF Head(ms.items).repeat > 0
                          THEN push_front(Tail(ms.items), Head(ms.items).item,
                                          Head(ms.items).repeat - 1)
                          ELSE Tail(ms.items)],
        res |-> poll_into_opt(Head(ms.items).item)]

RECURSIVE Total(_)
\* the results a configuration holds: the sum of repeat + 1 over its items
Total(config) ==
  IF config = <<>> THEN 0 ELSE Head(config).repeat + 1 + Total(Tail(config))

\* mock in the states of MockSpec:
\*   config: what the mock was built from
\*   ms: the MockStream
\*   out: what poll_next has returned, in order
MockInit ==
  /\ NewRequest({BodyAB})
  /\ txt = Unused
  /\ fold = Unused
  /\ sink = Unused
  /\ \E c \in MockConfigs :
       mock = [used |-> TRUE, config |-> c, ms |-> NewMockStream(c), out |-> <<>>]

\* the test polls the mock
MockPoll ==
  /\ Len(mock.out) < Total(mock.config) + MaxExtra
  /\ \E r \in {poll_next(mock.ms)} :
       mock' = [mock EXCEPT !.ms = r.ms, !.out = Append(@, r.res)]
  /\ UNCHANGED <<parserVars, txt, fold, sink>>

MockNext == MockPoll

MockSpec == MockInit /\ [][MockNext]_vars

\* ------------------------------------------------------ claims on MockStream
RECURSIVE Expand(_)
\* each item repeat + 1 times, in the order of the configuration
Expand(config) ==
  IF config = <<>> THEN <<>>
  ELSE [j \in 1..(Head(config).repeat + 1) |->
          IF Head(config).item.t = "Ready"
          THEN ReadySome(Head(config).item.v) ELSE Head(config).item]
       \o Expand(Tail(config))

\* C21: the results of polling a MockStream are each configured item repeat + 1
\* times, in configuration order, and Ready(None) on every poll after them; an
\* empty mock returns Ready(None) at once and on every extra poll.
C21_MockSequence ==
  \A i \in 1..Len(mock.out) :
    mock.out[i] = IF i <= Len(Expand(mock.config))
                  THEN Expand(mock.config)[i] ELSE ReadyNone

\* two different items, the first one repeated, polled past the end
C21_Witness ==
  /\ Len(mock.config) = 2
  /\ mock.config[1].repeat > 0
  /\ mock.config[1].item # mock.config[2].item
  /\ Len(mock.out) > Total(mock.config)

\* ------------------------------------------------- FileSink (server/save.rs)
\* save.rs names a field `self.item` and a variable `chunk` that do not exist; they
\* are read as the only candidates in scope: `self.item` is the field `chunk` of
\* the FileSink, and `Some(chunk)` restores what is left of `item`.
\*   chunk: Option<C>, << >> for None, <<c>> for Some(c)
\*   file: the bytes written to the file, in order
\*   writes: what File::poll_write will return, call by call: n > 0 for n bytes
\*           written, 0 for NotReady, -1 for an io::Error; NotReady once used up
\* results File::poll_write returns during the life of one sink
MaxWrites == 3

\* the chunks of a field's body offered to the sink
SinkItems == {<<"h">>, <<"h", "i">>, <<"x", "y", "z">>}

WriteScripts == UNION { [1..n -> {-1, 0, 1, 2}] : n \in 0..MaxWrites }

\* `FileSink { chunk: None, file }`
NewFileSink(script) == [chunk |-> << >>, file |-> << >>, writes |-> script]

\* what a call on the sink leaves and returns; item: the item AsyncSink::NotReady
\* hands back
SR(s, t, item) == [s |-> s, t |-> t, item |-> item]

RECURSIVE write_item(_, _)
\* save.rs 107-112: `while !item.as_slice().is_empty()` over what is left of item,
\* with the two-argument try_ready_ext! that restores Some(item)
write_item(s, item) ==
  IF item = << >> THEN SR(s, "Ready", << >>)
  ELSE IF s.writes = << >>
    THEN SR([s EXCEPT !.chunk = <<item>>], "NotReady", << >>)
  ELSE IF Head(s.writes) = 0
    THEN SR([s EXCEPT !.chunk = <<item>>, !.writes = Tail(@)], "NotReady", << >>)
  ELSE IF Head(s.writes) < 0
    THEN SR([s EXCEPT !.chunk = <<item>>, !.writes = Tail(@)], "Err", << >>)
  ELSE write_item([s EXCEPT !.file = @ \o SubSeq(item, 1, Min(Head(s.writes), Len(item))),
                            !.writes = Tail(@)],
                  SubSeq(item, Min(Head(s.writes), Len(item)) + 1, Len(item)))

\* FileSink::poll_complete: `self.item.take().expect(..)` panics on None
poll_complete(s) ==
  IF s.chunk = << >> THEN SR(s, "Panic", << >>)
  ELSE write_item([s EXCEPT !.chunk = << >>], s.chunk[1])

RECURSIVE complete_loop(_)
\* save.rs 97-99: `while let Async::Ready(()) = self.poll_complete()? {}`, then
\* `Ok(AsyncSink::Ready)`
complete_loop(s) ==
  CHOOSE r \in
    { CASE c.t = "Ready" -> complete_loop(c.s)
        [] c.t = "NotReady" -> SR(c.s, "Ready", << >>)
        [] OTHER -> c
      : c \in {poll_complete(s)} } : TRUE

\* FileSink::start_send: the item is not stored in the sink
start_send(s, item) ==
  IF s.chunk # << >> THEN SR(s, "NotReady", item)
  ELSE complete_loop(s)

\* sink in the states of SinkSpec:
\*   s: the FileSink
\*   accepted: the items start_send has accepted, in order
\*   last: the call made last (op), the item offered, whether a chunk was pending
\*         when it was made, and what it returned (t, item)
SinkInit ==
  /\ NewRequest({BodyAB})
  /\ txt = Unused
  /\ fold = Unused
  /\ mock = Unused
  /\ \E w \in WriteScripts :
       sink = [used |-> TRUE, s |-> NewFileSink(w), accepted |-> << >>,
               last |-> [op |-> "new", offered |-> << >>, pending |-> FALSE,
                         t |-> "", item |-> << >>]]

\* Forward offers the next chunk of the field to the sink
SinkStartSend ==
  /\ sink.last.t # "Panic"
  /\ \E item \in SinkItems :
       \E r \in {start_send(sink.s, item)} :
         sink' = [sink EXCEPT !.s = r.s,
                              !.accepted = IF r.t = "Ready" THEN Append(@, item) ELSE @,
                              !.last = [op |-> "start_send", offered |-> item,
                                        pending |-> sink.s.chunk # << >>,
                                        t |-> r.t, item |-> r.item]]
  /\ UNCHANGED <<parserVars, txt, fold, mock>>

\* Forward flushes the sink
SinkPollComplete ==
  /\ sink.last.t # "Panic"
  /\ \E r \in {poll_complete(sink.s)} :
       sink' = [sink EXCEPT !.s = r.s,
                            !.last = [op |-> "poll_complete", offered |-> << >>,
                                      pending |-> sink.s.chunk # << >>,
                                      t |-> r.t, item |-> r.item]]
  /\ UNCHANGED <<parserVars, txt, fold, mock>>

SinkNext == SinkStartSend \/ SinkPollComplete

SinkSpec == SinkInit /\ [][SinkNext]_vars

\* -------------------------------------------------------- claims on FileSink
\* the bytes the sink holds: the chunk that is pending
Unwritten == IF sink.s.chunk = << >> THEN << >> ELSE sink.s.chunk[1]

\* C30: FileSink applies backpressure.  It holds at most one chunk; start_send made
\* while a chunk is pending returns NotReady with the item it was given, unchanged;
\* start_send accepts an item only when no chunk is pending, and the bytes of the
\* accepted items are in the file, in order, or still held by the sink.
C30_Backpressure ==
  /\ Len(sink.s.chunk) <= 1
  /\ sink.last.op = "start_send" =>
       \/ /\ sink.last.pending
          /\ sink.last.t = "NotReady" /\ sink.last.item = sink.last.offered
       \/ /\ ~sink.last.pending
          /\ sink.last.t \in {"Ready", "Err"}
  /\ sink.last.t # "Err" => sink.s.file \o Unwritten = Flatten(sink.accepted)
====
